---------------------------- MODULE Spec2Model ----------------------------
(***************************************************************************)
(* A model of pygpt's conversation-state engine: the Message transcript    *)
(* (src/pygpt/message.py), the GPTApi remote client (src/pygpt/gpt_api.py) *)
(* and the Discussion engine with its persistence                          *)
(* (src/pygpt/discussion.py).                                              *)
(*                                                                         *)
(* Python values that may be of several types (arguments, Optional fields, *)
(* JSON values) are tagged records: None, PyStr(s), PyInt(n), PyList(l),   *)
(* PyDate(d).  A turn of a transcript is [role |-> r, content |-> c].      *)
(*                                                                         *)
(* Specifications:                                                         *)
(*   SpecMessage  one Message object driven through its public methods;    *)
(*   SpecTalk     one Discussion engine without persistence, the blocking  *)
(*                remote call being the only point where an operation      *)
(*                waits (pc);                                              *)
(*   Spec         the engine with load and dump;                           *)
(*   SpecDates    the engine stored and loaded while the clock advances;   *)
(*   SpecUI       the commands of UserInterface                            *)
(*                (src/pygpt/user_interface.py) over a storage directory;  *)
(*   SpecSession  discussions made one after the other with !new;          *)
(*   SpecCommands the commands that change the open discussion.            *)
(***************************************************************************)
EXTENDS Integers, Sequences, FiniteSets, TLC

VARIABLES
    message,            \* SpecMessage: Message._message of a stand-alone Message
    token_limit,        \* Discussion._token_limit
    model,              \* GPTApi._model
    title,              \* Discussion._title          (None or PyStr)
    created_date,       \* Discussion._created_date   (None or PyDate)
    modified_date,      \* Discussion._modified_date  (None or PyDate)
    complete_message,   \* Discussion.complete_message._message
    resume_message,     \* Discussion.resume_message._message
    old_system_content, \* local of handle_long_discussion while it waits
    response,           \* local of add_user_question while summarization waits
    pc,                 \* position of the running operation: "idle", "ask", "summarize"
    inflight,           \* the remote request being waited for (messages, model)
    files,              \* the file system: path -> document or Absent
    now,                \* the last time datetime.now() returned
    discussion_code,    \* UserInterface.discussion_code (None or PyStr)
    last                \* the last operation: its name, arguments, outcome

vars == <<message, token_limit, model, title, created_date, modified_date,
          complete_message, resume_message, old_system_content, response,
          pc, inflight, files, now, discussion_code, last>>

engineVars == <<token_limit, model, title, created_date, modified_date,
                complete_message, resume_message, old_system_content, response,
                pc, inflight, files, now, discussion_code>>

-----------------------------------------------------------------------------
(* Bounds of the model *)

\* A stand-alone Message grows to at most this many turns.
MaxMessageLen == 3
\* SpecTalk: add_user_question is called while complete_message holds fewer
\* than MaxExchanges exchanges (pairs of non-system turns).
MaxExchanges == 2
\* Spec: the same cap, where documents are stored and loaded as well.
MaxStoredExchanges == 1
\* Spec: datetime.now() returns times 0 .. MaxStoredClock.
MaxStoredClock == 0
\* SpecDates: datetime.now() returns times 0 .. MaxClock.
MaxClock == 2
\* SpecSession: !new is given while the storage directory holds fewer than
\* MaxDiscussions documents, and a question is sent while the open
\* discussion holds fewer than MaxSessionExchanges exchanges.
MaxDiscussions == 2
MaxSessionExchanges == 1
\* SpecCommands: the same two limits.
MaxCommandDiscussions == 1
MaxCommandExchanges == 1

-----------------------------------------------------------------------------
(* Python values *)

None == [t |-> "none"]
PyStr(s) == [t |-> "str", s |-> s]
PyInt(n) == [t |-> "int", n |-> n]
PyList(l) == [t |-> "list", items |-> l]
PyDate(d) == [t |-> "datetime", tick |-> d]

IsStr(v) == v.t = "str"
IsInt(v) == v.t = "int"
IsDate(v) == v.t = "datetime"

\* The outcome of a call: the exception it raised ("" when it returned).
NoError == ""

Turn(role, content) == [role |-> role, content |-> content]

-----------------------------------------------------------------------------
(* Message: src/pygpt/message.py *)

\* Message.clear
Message_clear == << >>

HasSystemTurn(m) == Len(m) > 0 /\ m[1].role = "system"

\* A clear_except_system that keeps the first turn whatever its role.
Mutant_clear_except_system_keeps_first(m) ==
    IF Len(m) > 0 THEN << m[1] >> ELSE << >>

\* Message.clear_except_system
Message_clear_except_system(m) ==
    IF HasSystemTurn(m) THEN << m[1] >> ELSE Message_clear

\* Message.system_content (getter)
Message_system_content(m) ==
    IF HasSystemTurn(m) THEN PyStr(m[1].content) ELSE None

\* A setter that leaves an existing system turn as it is.
Mutant_set_system_content_keeps_existing(m, content) ==
    IF Len(m) > 0 /\ m[1].role = "system" THEN m
    ELSE IF content = None THEN m
    ELSE << [role |-> "system", content |-> content.s] >> \o m

\* A setter that always inserts a new system turn at the front.
Mutant_set_system_content_always_insert(m, content) ==
    IF content = None
    THEN IF HasSystemTurn(m) THEN Tail(m) ELSE m
    ELSE << Turn("system", content.s) >> \o m

\* Message.system_content (setter)
Message_set_system_content(m, content) ==
    IF content = None
    THEN IF HasSystemTurn(m) THEN Tail(m) ELSE m
    ELSE IF Len(m) = 0 \/ m[1].role # "system"
         THEN << Turn("system", content.s) >> \o m
         ELSE [m EXCEPT ![1].content = content.s]

\* add_message with the two fields of the stored turn exchanged.
Mutant_add_message_swaps_fields(m, role, content) ==
    IF ~IsStr(role) \/ ~IsStr(content) THEN [err |-> "ValueError", m |-> m]
    ELSE IF role.s = "system"
         THEN [err |-> NoError, m |-> Message_set_system_content(m, content)]
         ELSE [err |-> NoError, m |-> Append(m, Turn(content.s, role.s))]

\* add_message without the isinstance checks: the turn is stored as given.
Mutant_add_message_unchecked(m, role, content) ==
    [err |-> IF IsStr(role) /\ IsStr(content) THEN NoError ELSE "ValueError",
     m   |-> Append(m, Turn(IF IsStr(role) THEN role.s ELSE "?",
                            IF IsStr(content) THEN content.s ELSE "?"))]

\* Message.add_message: the exception raised and the transcript afterwards
Message_add_message(m, role, content) ==
    IF ~IsStr(role) THEN [err |-> "ValueError", m |-> m]
    ELSE IF ~IsStr(content) THEN [err |-> "ValueError", m |-> m]
    ELSE IF role.s = "system"
         THEN [err |-> NoError, m |-> Message_set_system_content(m, content)]
         ELSE [err |-> NoError, m |-> Append(m, Turn(role.s, content.s))]

\* The number of system-role turns of a transcript.
RECURSIVE SystemTurns(_)
SystemTurns(m) ==
    IF m = << >> THEN 0
    ELSE (IF m[1].role = "system" THEN 1 ELSE 0) + SystemTurns(Tail(m))

\* The turns of a transcript that are not system turns, in order.
NonSystem(m) == SelectSeq(m, LAMBDA turn : turn.role # "system")


-----------------------------------------------------------------------------
(* GPTApi: src/pygpt/gpt_api.py *)

\* GPTApi._correct_models
correct_models == {"gpt-3.5-turbo", "gpt-4"}

\* A model setter that accepts every string.
Mutant_set_model_any_string(current, value) ==
    IF ~IsStr(value) THEN [err |-> "ValueError", model |-> current]
    ELSE [err |-> NoError, model |-> value.s]

\* A model setter that assigns before it validates.
Mutant_set_model_assign_first(current, value) ==
    IF ~IsStr(value) THEN [err |-> "ValueError", model |-> current]
    ELSE IF value.s \notin correct_models
         THEN [err |-> "ValueError", model |-> value.s]
         ELSE [err |-> NoError, model |-> value.s]

\* GPTApi.model (setter), reached through Discussion.model (setter)
GPTApi_set_model(current, value) ==
    IF ~IsStr(value) THEN [err |-> "ValueError", model |-> current]
    ELSE IF value.s \notin correct_models
         THEN [err |-> "ValueError", model |-> current]
         ELSE [err |-> NoError, model |-> value.s]

\* What openai.chat.completions.create does with a request: it returns a
\* reply, or raises one of the three classes ask_gpt catches.
Outcomes ==
    { [kind |-> "ok", text |-> "Hi there"],
      [kind |-> "AuthenticationError", text |-> "401"],
      [kind |-> "OpenAIError", text |-> "500"],
      [kind |-> "Exception", text |-> "boom"] }

\* An ask_gpt with one except clause: every failure gives the same message.
Mutant_ask_gpt_one_except_clause(outcome) ==
    IF outcome.kind = "ok" THEN outcome.text
    ELSE "Error - Unexpected error: " \o outcome.text

\* GPTApi.ask_gpt: the string it returns for an outcome of the remote call
GPTApi_ask_gpt(outcome) ==
    CASE outcome.kind = "ok" -> outcome.text
      [] outcome.kind = "AuthenticationError" ->
            "Error - invalid or not configured API key: " \o outcome.text
      [] outcome.kind = "OpenAIError" ->
            "Error - related to the OpenAI API: " \o outcome.text
      [] OTHER -> "Error - Unexpected error: " \o outcome.text

\* The request ask_gpt hands to openai.chat.completions.create.
Request(messages, m) == [messages |-> messages, model |-> m]
NoRequest == [messages |-> << >>, model |-> ""]

-----------------------------------------------------------------------------
(* Discussion: src/pygpt/discussion.py *)

\* The defaults of Discussion.__init__ and of Discussion.load.
DefaultTokenLimit == 4096
DefaultModel == "gpt-3.5-turbo"

\* A token_limit setter that assigns before it validates.
Mutant_set_token_limit_assign_first(current, value) ==
    IF ~IsInt(value) THEN [err |-> "ValueError", token_limit |-> current]
    ELSE IF value.n <= 0 THEN [err |-> "ValueError", token_limit |-> value.n]
    ELSE [err |-> NoError, token_limit |-> value.n]

\* Discussion.token_limit (setter)
Discussion_set_token_limit(current, value) ==
    IF ~IsInt(value) \/ value.n <= 0
    THEN [err |-> "ValueError", token_limit |-> current]
    ELSE [err |-> NoError, token_limit |-> value.n]

\* Discussion.title (setter)
Discussion_set_title(current, value) ==
    IF value # None /\ ~IsStr(value)
    THEN [err |-> "ValueError", title |-> current]
    ELSE [err |-> NoError, title |-> value]

\* sum(len(msg["content"]) for msg in m)
RECURSIVE ContentLength(_)
ContentLength(m) ==
    IF m = << >> THEN 0 ELSE Len(m[1].content) + ContentLength(Tail(m))

\* A budget check that also fires when the estimate equals the limit.
Mutant_is_over_token_limit_inclusive(resume, limit) ==
    (ContentLength(resume) \div 4) >= limit

\* Discussion._is_over_token_limit: int(sum / 4) > token_limit
Discussion_is_over_token_limit(resume, limit) ==
    (ContentLength(resume) \div 4) > limit

\* The system content handle_long_discussion sets while it asks for the summary.
SummarizingSentinel == "Summarizing the conversation..."

\* The f-string of line 342: the instruction sent to the model.
InstructionSent(limit) ==
    "Summarize the conversation less than " \o ToString(limit \div 4) \o " tokens."

\* The plain string of line 347: the instruction recorded after the reset.
InstructionRecorded ==
    "Summarize the previous conversation less than {int(self.token_limit/4)} tokens."

\* The two transcripts of the engine.
Transcripts(complete, resume) ==
    [complete_message |-> complete, resume_message |-> resume]

\* An append that reaches resume_message only.
Mutant_append_resume_only(d, role, content) ==
    Transcripts(d.complete_message,
                Message_add_message(d.resume_message, PyStr(role), PyStr(content)).m)

\* add_user_question, lines 253-254 and 260-261: a turn is added to
\* complete_message and to resume_message
add_to_both(d, role, content) ==
    Transcripts(Message_add_message(d.complete_message, PyStr(role), PyStr(content)).m,
                Message_add_message(d.resume_message, PyStr(role), PyStr(content)).m)

\* A summarization request that is sent under the engine's own system
\* content: the sentinel is not set.
Mutant_request_without_sentinel(d, limit) ==
    [old |-> Message_system_content(d.resume_message),
     d   |-> Transcripts(d.complete_message,
                         Message_add_message(d.resume_message, PyStr("user"),
                                             PyStr(InstructionSent(limit))).m)]

\* handle_long_discussion up to its remote call (lines 339-342): the system
\* content it keeps and the transcripts as the request is sent.
handle_long_discussion_request(d, limit) ==
    LET old == Message_system_content(d.resume_message)
        m1  == Message_set_system_content(d.resume_message, PyStr(SummarizingSentinel))
        m2  == Message_add_message(m1, PyStr("user"), PyStr(InstructionSent(limit))).m
    IN [old |-> old, d |-> Transcripts(d.complete_message, m2)]

\* The new resume transcript of lines 345-348.
Rebuilt(old, summary) ==
    LET m0 == Message_clear
        m1 == Message_set_system_content(m0, old)
        m2 == Message_add_message(m1, PyStr("user"), PyStr(InstructionRecorded)).m
    IN Message_add_message(m2, PyStr("assistant"), PyStr(summary)).m

\* A summarization that does not restore the system content after the reset.
Mutant_rebuild_drops_system(d, old, summary) ==
    Transcripts(d.complete_message, Rebuilt(None, summary))

\* A summarization that records the summary without the instruction turn.
Mutant_rebuild_summary_only(d, old, summary) ==
    Transcripts(d.complete_message,
                Message_add_message(Message_set_system_content(Message_clear, old),
                                    PyStr("assistant"), PyStr(summary)).m)

\* A summarization that gives up when the summary is an error text and
\* leaves resume_message as it was sent.
Mutant_rebuild_gives_up_on_error(d, old, summary) ==
    IF summary \in { GPTApi_ask_gpt(o) : o \in { x \in Outcomes : x.kind # "ok" } }
    THEN d
    ELSE Transcripts(d.complete_message, Rebuilt(old, summary))

\* A summarization that keeps the sentinel system turn: clear_except_system
\* in the place of clear, and no restore.
Mutant_rebuild_keeps_sentinel(d, old, summary) ==
    LET m1 == Message_clear_except_system(d.resume_message)
        m2 == Message_add_message(m1, PyStr("user"), PyStr(InstructionRecorded)).m
    IN Transcripts(d.complete_message,
                   Message_add_message(m2, PyStr("assistant"), PyStr(summary)).m)

\* A summarization that records the instruction and the summary in
\* complete_message as well.
Mutant_rebuild_records_in_complete(d, old, summary) ==
    LET c1 == Message_add_message(d.complete_message, PyStr("user"),
                                  PyStr(InstructionRecorded)).m
    IN Transcripts(Message_add_message(c1, PyStr("assistant"), PyStr(summary)).m,
                   Rebuilt(old, summary))

\* handle_long_discussion after its remote call (lines 345-348): the
\* transcripts once resume_message is rebuilt.
handle_long_discussion_rebuild(d, old, summary) ==
    Transcripts(d.complete_message, Rebuilt(old, summary))

-----------------------------------------------------------------------------
(* Persistence: Discussion.dump and Discussion.load *)

\* The paths load and dump are called with.
Paths == {"a.json"}

Absent == [t |-> "absent"]

\* dict.get(key, default)
Get(data, key, default) == IF key \in DOMAIN data THEN data[key] ELSE default

\* The times datetime.now() may return: seconds 0 to 9 of one minute.
Times == 0..9

\* datetime.isoformat, for the times of the model
isoformat(d) == PyStr("2025-01-01T00:00:0" \o ToString(d.tick))

\* datetime.fromisoformat: TypeError on a non-string, ValueError on a string
\* that is no ISO date
fromisoformat(v) ==
    IF ~IsStr(v) THEN [err |-> "TypeError", date |-> None]
    ELSE IF \E d \in Times : isoformat(PyDate(d)) = v
         THEN [err |-> NoError,
               date |-> PyDate(CHOOSE d \in Times : isoformat(PyDate(d)) = v)]
         ELSE [err |-> "ValueError", date |-> None]

\* A dump that stamps modified_date only when the engine has none.
Mutant_dump_data_keeps_modified_date(e, t_created, t_modified) ==
    (IF e.title # None THEN [title |-> e.title] ELSE << >>) @@
    [created_date     |-> IF e.created_date # None THEN isoformat(e.created_date)
                          ELSE isoformat(PyDate(t_created)),
     modified_date    |-> IF e.modified_date # None THEN isoformat(e.modified_date)
                          ELSE isoformat(PyDate(t_modified)),
     complete_message |-> PyList(e.complete_message),
     resume_message   |-> PyList(e.resume_message),
     token_limit      |-> PyInt(e.token_limit),
     model            |-> PyStr(e.model)]

\* A dump that writes the title key even when the title is unset.
Mutant_dump_data_title_always(e, t_created, t_modified) ==
    [title            |-> IF e.title # None THEN e.title ELSE PyStr("None"),
     created_date     |-> IF e.created_date # None THEN isoformat(e.created_date)
                          ELSE isoformat(PyDate(t_created)),
     modified_date    |-> isoformat(PyDate(t_modified)),
     complete_message |-> PyList(e.complete_message),
     resume_message   |-> PyList(e.resume_message),
     token_limit      |-> PyInt(e.token_limit),
     model            |-> PyStr(e.model)]

\* Discussion.dump, lines 311-327: the document written for engine e when
\* datetime.now() returns t_created (line 319) and t_modified (line 321)
dump_data(e, t_created, t_modified) ==
    (IF e.title # None THEN [title |-> e.title] ELSE << >>) @@
    [created_date     |-> IF e.created_date # None THEN isoformat(e.created_date)
                          ELSE isoformat(PyDate(t_created)),
     modified_date    |-> isoformat(PyDate(t_modified)),
     complete_message |-> PyList(e.complete_message),
     resume_message   |-> PyList(e.resume_message),
     token_limit      |-> PyInt(e.token_limit),
     model            |-> PyStr(e.model)]

\* data["key"] handed to fromisoformat: KeyError when the key is missing
read_date(data, key) ==
    IF key \notin DOMAIN data THEN [err |-> "KeyError", date |-> None]
    ELSE fromisoformat(data[key])

\* A load that starts with Discussion.clear, which resets title and dates too.
Mutant_load_clears_everything(e, data) ==
    [e EXCEPT !.err = IF data = Absent THEN "FileNotFoundError" ELSE NoError,
              !.title = None,
              !.created_date = None,
              !.modified_date = None,
              !.complete_message = Message_clear,
              !.resume_message = Message_clear]

\* Discussion.load, lines 286-300, for engine e: Absent is the missing file.
\* The assignments run in order and the first exception ends the call.
load_result(e, data) ==
    IF data = Absent
    THEN [e EXCEPT !.err = "FileNotFoundError",
                   !.complete_message = Message_clear,
                   !.resume_message = Message_clear]
    ELSE
    LET t  == Discussion_set_title(e.title, Get(data, "title", None))
        m  == IF t.err # NoError THEN [err |-> t.err, model |-> e.model]
              ELSE GPTApi_set_model(e.model, Get(data, "model", PyStr(DefaultModel)))
        l  == IF m.err # NoError THEN [err |-> m.err, token_limit |-> e.token_limit]
              ELSE Discussion_set_token_limit(e.token_limit,
                                              Get(data, "token_limit", PyInt(DefaultTokenLimit)))
        c  == IF l.err # NoError THEN [err |-> l.err, date |-> None]
              ELSE read_date(data, "created_date")
        d  == IF c.err # NoError THEN [err |-> c.err, date |-> None]
              ELSE read_date(data, "modified_date")
        ok == d.err = NoError
    IN [err              |-> d.err,
        title            |-> t.title,
        model            |-> m.model,
        token_limit      |-> l.token_limit,
        created_date     |-> IF c.err = NoError THEN c.date ELSE e.created_date,
        modified_date    |-> IF d.err = NoError THEN d.date ELSE e.modified_date,
        complete_message |-> IF ok THEN Get(data, "complete_message", PyList(<< >>)).items
                             ELSE Message_clear,
        resume_message   |-> IF ok THEN Get(data, "resume_message", PyList(<< >>)).items
                             ELSE Message_clear]

\* The fields of the engine, as dump and load read them.
Engine ==
    [err              |-> NoError,
     title            |-> title,
     model            |-> model,
     token_limit      |-> token_limit,
     created_date     |-> created_date,
     modified_date    |-> modified_date,
     complete_message |-> complete_message,
     resume_message   |-> resume_message]

\* Documents found in the storage directory that this process did not write.
StoredDates ==
    [created_date |-> isoformat(PyDate(0)), modified_date |-> isoformat(PyDate(0))]
ExternalDocs ==
    { StoredDates,
      StoredDates @@ [title |-> PyStr("Old"), model |-> PyStr("gpt-5")],
      StoredDates @@ [title |-> PyStr("Old"), model |-> PyStr("gpt-4"),
                      token_limit |-> PyInt(0)],
      [title |-> PyStr("Old"), model |-> PyStr("gpt-4"), token_limit |-> PyInt(3)] }

-----------------------------------------------------------------------------
(* Inputs *)

\* role and content arguments of Message.add_message
Roles == {PyStr("system"), PyStr("user"), PyStr("assistant"), PyStr("tool"), None}
Contents == {PyStr("a"), PyStr("bb"), PyInt(1)}
\* arguments of the system_content setters
SystemContents == {None, PyStr("Be brief.")}
\* arguments of the engine's setters, valid and invalid
TokenLimits == {PyInt(3), PyInt(0), PyStr("3")}
Models == {PyStr("gpt-3.5-turbo"), PyStr("gpt-4"), PyStr("gpt-5"), PyInt(4)}
Titles == {None, PyStr("Trip"), PyInt(7)}
\* questions of the user
Questions == {"Hello", "Why?"}

\* What the model records of the last operation: its name, its argument (of
\* add_message, add_user_question, load and dump), the exception it raised;
\* for add_user_question the value returned, the number of remote calls
\* issued, what the remote calls came to, whether summarization ran, and
\* complete_message and the system content at the call; for load,
\* complete_message at the call and the operation that preceded it.
OpRec(op, arg, err) ==
    [op |-> op, arg |-> arg, err |-> err, prev |-> "", ret |-> None, calls |-> 0,
     remote |-> << >>, summarized |-> FALSE, pre_complete |-> << >>,
     pre_system |-> None]

-----------------------------------------------------------------------------
(* SpecMessage: one Message object *)

MsgAddMessage(role, content) ==
    /\ Len(message) < MaxMessageLen
    /\ LET r == Message_add_message(message, role, content)
       IN /\ message' = r.m
          /\ last' = OpRec("Message.add_message", << role, content >>, r.err)
    /\ UNCHANGED engineVars

MsgSetSystemContent(content) ==
    /\ Len(message) < MaxMessageLen
    /\ message' = Message_set_system_content(message, content)
    /\ last' = OpRec("Message.system_content", None, NoError)
    /\ UNCHANGED engineVars

MsgClear ==
    /\ message' = Message_clear
    /\ last' = OpRec("Message.clear", None, NoError)
    /\ UNCHANGED engineVars

MsgClearExceptSystem ==
    /\ message' = Message_clear_except_system(message)
    /\ last' = [OpRec("Message.clear_except_system", None, NoError) EXCEPT
                    !.pre_complete = message]
    /\ UNCHANGED engineVars

\* Discussion.__init__ with the defaults UserInterface.__init__ leaves it
InitEngine ==
    /\ token_limit = DefaultTokenLimit
    /\ model = DefaultModel
    /\ title = None
    /\ created_date = None
    /\ modified_date = None
    /\ complete_message = Message_clear
    /\ resume_message = Message_clear
    /\ old_system_content = None
    /\ response = None
    /\ pc = "idle"
    /\ inflight = NoRequest
    /\ now = 0
    /\ discussion_code = None
    /\ last = OpRec("__init__", None, NoError)

InitMessage ==
    /\ message = Message_clear
    /\ files = [p \in Paths |-> Absent]
    /\ InitEngine

NextMessage ==
    \/ \E role \in Roles, content \in Contents : MsgAddMessage(role, content)
    \/ \E content \in SystemContents : MsgSetSystemContent(content)
    \/ MsgClear
    \/ MsgClearExceptSystem

SpecMessage == InitMessage /\ [][NextMessage]_vars

-----------------------------------------------------------------------------
(* Discussion: the operations of the engine *)

Idle == pc = "idle"

unchangedCall == UNCHANGED << old_system_content, response, pc, inflight >>

\* Discussion.token_limit = value
SetTokenLimit(value) ==
    /\ Idle
    /\ LET r == Discussion_set_token_limit(token_limit, value)
       IN /\ token_limit' = r.token_limit
          /\ last' = OpRec("token_limit", None, r.err)
    /\ UNCHANGED << model, title, created_date, modified_date,
                    complete_message, resume_message, files, now, message,
                    discussion_code >>
    /\ unchangedCall

\* Discussion.model = value
SetModel(value) ==
    /\ Idle
    /\ LET r == GPTApi_set_model(model, value)
       IN /\ model' = r.model
          /\ last' = OpRec("model", None, r.err)
    /\ UNCHANGED << token_limit, title, created_date, modified_date,
                    complete_message, resume_message, files, now, message,
                    discussion_code >>
    /\ unchangedCall

\* Discussion.title = value
SetTitle(value) ==
    /\ Idle
    /\ LET r == Discussion_set_title(title, value)
       IN /\ title' = r.title
          /\ last' = OpRec("title", None, r.err)
    /\ UNCHANGED << token_limit, model, created_date, modified_date,
                    complete_message, resume_message, files, now, message,
                    discussion_code >>
    /\ unchangedCall

\* Discussion.system_content = content (lines 222-223)
SetSystemContent(content) ==
    /\ Idle
    /\ resume_message' = Message_set_system_content(resume_message, content)
    /\ complete_message' = Message_set_system_content(complete_message, content)
    /\ last' = OpRec("system_content", None, NoError)
    /\ UNCHANGED << token_limit, model, title, created_date, modified_date,
                    files, now, message,
                    discussion_code >>
    /\ unchangedCall

\* A clear that keeps the system turn of both transcripts and the title.
Mutant_Clear_keeps_system_and_title ==
    /\ pc = "idle"
    /\ complete_message' = Message_clear_except_system(complete_message)
    /\ resume_message' = Message_clear_except_system(resume_message)
    /\ created_date' = None
    /\ modified_date' = None
    /\ last' = [OpRec("clear", None, NoError) EXCEPT
                    !.pre_complete = complete_message,
                    !.pre_system = Message_system_content(resume_message)]
    /\ UNCHANGED << token_limit, model, title, files, now, message,
                    discussion_code, old_system_content, response, pc, inflight >>

\* Discussion.clear
Clear ==
    /\ Idle
    /\ complete_message' = Message_clear
    /\ resume_message' = Message_clear
    /\ title' = None
    /\ created_date' = None
    /\ modified_date' = None
    /\ last' = [OpRec("clear", None, NoError) EXCEPT
                    !.pre_complete = complete_message,
                    !.pre_system = Message_system_content(resume_message)]
    /\ UNCHANGED << token_limit, model, files, now, message,
                    discussion_code >>
    /\ unchangedCall

\* An add_user_question that issues the remote call with resume_message as
\* it was, and appends the question afterwards.
Mutant_AddUserQuestion_asks_first(question, exchanges) ==
    /\ pc = "idle"
    /\ Len(NonSystem(complete_message)) < 2 * exchanges
    /\ LET d == add_to_both(Transcripts(complete_message, resume_message), "user", question)
       IN /\ complete_message' = d.complete_message
          /\ resume_message' = d.resume_message
          /\ inflight' = Request(resume_message, model)
    /\ pc' = "ask"
    /\ last' = [OpRec("add_user_question", PyStr(question), NoError) EXCEPT
                    !.calls = 1,
                    !.pre_complete = complete_message,
                    !.pre_system = Message_system_content(resume_message)]
    /\ UNCHANGED << token_limit, model, title, created_date, modified_date,
                    old_system_content, response, files, now, message,
                    discussion_code >>

\* Discussion.add_user_question(question), lines 253-257: the question is
\* appended to both transcripts and the remote call is issued.  The call is
\* made while complete_message holds fewer than `exchanges` exchanges.
AddUserQuestion(question, exchanges) ==
    /\ Idle
    /\ Len(NonSystem(complete_message)) < 2 * exchanges
    /\ LET d == add_to_both(Transcripts(complete_message, resume_message), "user", question)
       IN /\ complete_message' = d.complete_message
          /\ resume_message' = d.resume_message
          /\ inflight' = Request(d.resume_message, model)
    /\ pc' = "ask"
    /\ last' = [OpRec("add_user_question", PyStr(question), NoError) EXCEPT
                    !.calls = 1,
                    !.pre_complete = complete_message,
                    !.pre_system = Message_system_content(resume_message)]
    /\ UNCHANGED << token_limit, model, title, created_date, modified_date,
                    old_system_content, response, files, now, message,
                    discussion_code >>

\* add_user_question, lines 257-267, when ask_gpt returns: the reply is
\* appended to both transcripts and the budget is checked; over the budget,
\* handle_long_discussion runs up to its own remote call (lines 339-343).
AskGptReturns(outcome) ==
    /\ pc = "ask"
    /\ LET reply == GPTApi_ask_gpt(outcome)
           d == add_to_both(Transcripts(complete_message, resume_message),
                            "assistant", reply)
       IN IF Discussion_is_over_token_limit(d.resume_message, token_limit)
          THEN LET h == handle_long_discussion_request(d, token_limit)
               IN /\ complete_message' = h.d.complete_message
                  /\ resume_message' = h.d.resume_message
                  /\ old_system_content' = h.old
                  /\ response' = PyStr(reply)
                  /\ inflight' = Request(h.d.resume_message, model)
                  /\ pc' = "summarize"
                  /\ last' = [last EXCEPT !.calls = 2, !.summarized = TRUE,
                                          !.remote = << outcome >>]
          ELSE /\ complete_message' = d.complete_message
               /\ resume_message' = d.resume_message
               /\ old_system_content' = None
               /\ response' = None
               /\ inflight' = NoRequest
               /\ pc' = "idle"
               /\ last' = [last EXCEPT !.ret = PyStr(reply), !.remote = << outcome >>]
    /\ UNCHANGED << token_limit, model, title, created_date, modified_date,
                    files, now, message,
                    discussion_code >>

\* handle_long_discussion, lines 343-348, when ask_gpt returns the summary;
\* add_user_question then returns the reply (line 267).
SummaryReturns(outcome) ==
    /\ pc = "summarize"
    /\ LET d == handle_long_discussion_rebuild(Transcripts(complete_message, resume_message),
                                               old_system_content, GPTApi_ask_gpt(outcome))
       IN /\ complete_message' = d.complete_message
          /\ resume_message' = d.resume_message
    /\ last' = [last EXCEPT !.ret = response, !.remote = Append(@, outcome)]
    /\ old_system_content' = None
    /\ response' = None
    /\ inflight' = NoRequest
    /\ pc' = "idle"
    /\ UNCHANGED << token_limit, model, title, created_date, modified_date,
                    files, now, message,
                    discussion_code >>

\* Discussion.load(path)
Load(path) ==
    /\ Idle
    /\ LET r == load_result(Engine, files[path])
       IN /\ title' = r.title
          /\ model' = r.model
          /\ token_limit' = r.token_limit
          /\ created_date' = r.created_date
          /\ modified_date' = r.modified_date
          /\ complete_message' = r.complete_message
          /\ resume_message' = r.resume_message
          /\ last' = [OpRec("load", PyStr(path), r.err) EXCEPT
                          !.pre_complete = complete_message, !.prev = last.op]
    /\ UNCHANGED << files, now, message,
                    discussion_code >>
    /\ unchangedCall

\* Discussion.dump(path); datetime.now() is read once when created_date is
\* unset (line 319) and once more for modified_date (line 321); the clock
\* stands still or advances by one before each reading, up to time `clock`.
Dump(path, clock) ==
    /\ Idle
    /\ \E d1 \in 0..1, d2 \in 0..1 :
         LET t_created  == now + d1
             t_modified == t_created + d2
         IN /\ created_date # None => d1 = 0
            /\ t_modified <= clock
            /\ files' = [files EXCEPT ![path] = dump_data(Engine, t_created, t_modified)]
            /\ now' = t_modified
    /\ last' = OpRec("dump", PyStr(path), NoError)
    /\ UNCHANGED << token_limit, model, title, created_date, modified_date,
                    complete_message, resume_message, message,
                    discussion_code >>
    /\ unchangedCall

\* The operations that leave the file system alone.
Talk(questions, outcomes, exchanges) ==
    \/ \E value \in TokenLimits : SetTokenLimit(value)
    \/ \E value \in Models : SetModel(value)
    \/ \E value \in Titles : SetTitle(value)
    \/ \E content \in SystemContents : SetSystemContent(content)
    \/ Clear
    \/ \E question \in questions : AddUserQuestion(question, exchanges)
    \/ \E outcome \in outcomes : AskGptReturns(outcome)
    \/ \E outcome \in outcomes : SummaryReturns(outcome)

\* SpecTalk: the engine without persistence.
InitTalk ==
    /\ message = Message_clear
    /\ files = [p \in Paths |-> Absent]
    /\ InitEngine

NextTalk == Talk(Questions, Outcomes, MaxExchanges)

SpecTalk == InitTalk /\ [][NextTalk]_vars

\* Spec: every operation of the engine, over a storage directory that holds
\* no document or one that this process did not write; one question, a
\* remote call that succeeds.
StoredQuestions == {"Hello"}
StoredOutcomes == {o \in Outcomes : o.kind = "ok"}

Init ==
    /\ message = Message_clear
    /\ \E doc \in ExternalDocs \cup {Absent} : files = [p \in Paths |-> doc]
    /\ InitEngine

Next ==
    \/ Talk(StoredQuestions, StoredOutcomes, MaxStoredExchanges)
    \/ \E path \in Paths : Load(path)
    \/ \E path \in Paths : Dump(path, MaxStoredClock)

Spec == Init /\ [][Next]_vars

\* SpecDates: an engine that is stored, loaded and cleared while the clock
\* advances; the storage directory starts empty.
InitDates ==
    /\ message = Message_clear
    /\ files = [p \in Paths |-> Absent]
    /\ InitEngine

NextDates ==
    \/ \E path \in Paths : Dump(path, MaxClock)
    \/ \E path \in Paths : Load(path)
    \/ Clear
    \/ \E value \in Titles : SetTitle(value)

SpecDates == InitDates /\ [][NextDates]_vars

-----------------------------------------------------------------------------
(* UserInterface: src/pygpt/user_interface.py *)

\* The codes random.choices draws in generate_discussion_code, and the
\* titles given to !new and !title.
Codes == {"A", "B", "C"}
UITitles == {"Trip", "Work"}

\* os.path.join(self.base_directory, f"{code}.json")
CodePath(code) == code \o ".json"

\* os.path.isfile
isfile(fs, path) == path \in DOMAIN fs /\ fs[path] # Absent

\* A generator whose loop tests the code without its .json suffix: no such
\* file exists, and the first code drawn is returned.
Mutant_generate_discussion_code_tests_code(fs) ==
    { code \in Codes : ~isfile(fs, code) }

\* UserInterface.generate_discussion_code: the codes its loop can return,
\* those drawn for which <code>.json is no file
generate_discussion_code(fs) ==
    { code \in Codes : ~isfile(fs, CodePath(code)) }

\* The interface as its handlers read and write it: the engine, the code of
\* the open discussion and the storage directory.
UIState == [e |-> Engine, code |-> discussion_code, fs |-> files]

\* A clear that resets token_limit and model to the defaults as well.
Mutant_clear_resets_limit_and_model(e) ==
    [e EXCEPT !.complete_message = Message_clear,
              !.resume_message = Message_clear,
              !.title = None,
              !.created_date = None,
              !.modified_date = None,
              !.token_limit = DefaultTokenLimit,
              !.model = DefaultModel]

\* Discussion.clear, on the fields of an engine
Discussion_clear(e) ==
    [e EXCEPT !.complete_message = Message_clear,
              !.resume_message = Message_clear,
              !.title = None,
              !.created_date = None,
              !.modified_date = None]

\* UserInterface.save_discussion; the clock stands at `now`
save_discussion(u) ==
    IF u.code # None
    THEN [u EXCEPT !.fs[CodePath(u.code.s)] = dump_data(u.e, now, now)]
    ELSE u

\* UserInterface.close_discussion
close_discussion(u) ==
    IF u.code # None
    THEN LET s == save_discussion(u)
         IN [s EXCEPT !.e = Discussion_clear(s.e), !.code = None]
    ELSE u

\* UserInterface.open_discussion: discussion_code is assigned when load
\* has not raised
open_discussion(u, code) ==
    LET c == close_discussion(u)
        r == load_result(c.e, c.fs[CodePath(code)])
    IN [c EXCEPT !.e = r,
                 !.code = IF r.err = NoError THEN PyStr(code) ELSE c.code]

\* UserInterface.create_new_discussion, lines 287-293, for the code that
\* generate_discussion_code returned at line 285
create_new_discussion(u, title_arg, code) ==
    LET c == close_discussion(u)
        t == Discussion_set_title(c.e.title, PyStr(title_arg))
        s == save_discussion([c EXCEPT !.e.title = t.title, !.code = PyStr(code)])
    IN open_discussion(s, code)

\* UserInterface.set_title
set_title(u, title_arg) ==
    LET t == Discussion_set_title(u.e.title, PyStr(title_arg))
    IN save_discussion([u EXCEPT !.e.title = t.title])

\* UserInterface.delete_current_discussion, once the user has confirmed
delete_current_discussion(u) ==
    LET c == close_discussion(u)
    IN [c EXCEPT !.fs[CodePath(u.code.s)] = Absent]

\* The interface after a handler: u is what the handler leaves.
UIBecomes(u, op, arg) ==
    /\ title' = u.e.title
    /\ model' = u.e.model
    /\ token_limit' = u.e.token_limit
    /\ created_date' = u.e.created_date
    /\ modified_date' = u.e.modified_date
    /\ complete_message' = u.e.complete_message
    /\ resume_message' = u.e.resume_message
    /\ discussion_code' = u.code
    /\ files' = u.fs
    /\ last' = OpRec(op, arg, u.e.err)
    /\ UNCHANGED << now, message >>
    /\ unchangedCall

\* !new <title>
UICreateNewDiscussion(title_arg) ==
    /\ Idle
    /\ \E code \in generate_discussion_code(files) :
          UIBecomes(create_new_discussion(UIState, title_arg, code),
                    "create_new_discussion", PyStr(code))

\* !open, with the code the user picks in the list of the stored documents
\* (user_open_discussion)
UIOpenDiscussion(code) ==
    /\ Idle
    /\ isfile(files, CodePath(code))
    /\ UIBecomes(open_discussion(close_discussion(UIState), code),
                 "open_discussion", PyStr(code))

\* !close
UICloseDiscussion ==
    /\ Idle
    /\ UIBecomes(close_discussion(UIState), "close_discussion", None)

\* !title <title>, accepted when a discussion is open (is_discussion_open)
UISetTitle(title_arg) ==
    /\ Idle
    /\ discussion_code # None
    /\ UIBecomes(set_title(UIState, title_arg), "set_title", PyStr(title_arg))

\* !delete, accepted when a discussion is open, confirmed by the user
UIDeleteCurrentDiscussion ==
    /\ Idle
    /\ discussion_code # None
    /\ UIBecomes(delete_current_discussion(UIState),
                 "delete_current_discussion", discussion_code)

\* SpecUI: the interface over a storage directory that starts empty.
InitUI ==
    /\ message = Message_clear
    /\ files = [p \in { CodePath(code) : code \in Codes } |-> Absent]
    /\ InitEngine

NextUI ==
    \/ \E title_arg \in UITitles : UICreateNewDiscussion(title_arg)
    \/ \E code \in Codes : UIOpenDiscussion(code)
    \/ UICloseDiscussion
    \/ \E title_arg \in UITitles : UISetTitle(title_arg)
    \/ UIDeleteCurrentDiscussion

SpecUI == InitUI /\ [][NextUI]_vars

-----------------------------------------------------------------------------
(* UserInterface: the commands that change the open discussion *)

\* Discussion.add_user_question as the interface sees it, a call that
\* returns: the engine afterwards when the remote calls come to `first`
\* and, if summarization runs, `second`
add_user_question(e, question, first, second) ==
    LET d1 == add_to_both(Transcripts(e.complete_message, e.resume_message),
                          "user", question)
        d2 == add_to_both(d1, "assistant", GPTApi_ask_gpt(first))
        d3 == IF Discussion_is_over_token_limit(d2.resume_message, e.token_limit)
              THEN LET h == handle_long_discussion_request(d2, e.token_limit)
                   IN handle_long_discussion_rebuild(h.d, h.old, GPTApi_ask_gpt(second))
              ELSE d2
    IN [e EXCEPT !.complete_message = d3.complete_message,
                 !.resume_message = d3.resume_message]

\* UserInterface.handle_gpt_interaction
handle_gpt_interaction(u, question, first, second) ==
    save_discussion([u EXCEPT !.e = add_user_question(u.e, question, first, second)])

\* UserInterface.change_model: the ValueError of the setter is caught and
\* printed; there is no save
change_model(u, value) ==
    [u EXCEPT !.e.model = GPTApi_set_model(u.e.model, value).model]

\* UserInterface.set_token_limit
set_token_limit(u, limit) ==
    save_discussion(
        [u EXCEPT !.e.token_limit =
                     Discussion_set_token_limit(u.e.token_limit, PyInt(limit)).token_limit])

\* UserInterface.set_system_message
set_system_message(u, content) ==
    save_discussion(
        [u EXCEPT !.e.resume_message =
                     Message_set_system_content(u.e.resume_message, PyStr(content)),
                  !.e.complete_message =
                     Message_set_system_content(u.e.complete_message, PyStr(content))])

\* The arguments of !model, !token_limit and !system.
UIModels == {PyStr("gpt-4"), PyStr("gpt-3.5-turbo"), PyStr("gpt-5")}
UITokenLimits == {2000, 1000}
UISystemMessages == {"Be brief."}

\* The documents of the storage directory.
Documents(fs) == { path \in DOMAIN fs : fs[path] # Absent }

\* a line that is no command, accepted when a discussion is open
UIHandleGptInteraction(question, first, second, exchanges) ==
    /\ Idle
    /\ discussion_code # None
    /\ Len(NonSystem(complete_message)) < 2 * exchanges
    /\ UIBecomes(handle_gpt_interaction(UIState, question, first, second),
                 "handle_gpt_interaction", PyStr(question))

\* !model <model>, accepted when a discussion is open
UIChangeModel(value) ==
    /\ Idle
    /\ discussion_code # None
    /\ UIBecomes(change_model(UIState, value), "change_model", value)

\* !token_limit <limit>, accepted when a discussion is open and the limit
\* is above 1000 (handle_command, line 189)
UISetTokenLimit(limit) ==
    /\ Idle
    /\ discussion_code # None
    /\ limit > 1000
    /\ UIBecomes(set_token_limit(UIState, limit), "set_token_limit", PyInt(limit))

\* !system <message>, accepted when a discussion is open
UISetSystemMessage(content) ==
    /\ Idle
    /\ discussion_code # None
    /\ UIBecomes(set_system_message(UIState, content),
                 "set_system_message", PyStr(content))

\* SpecSession: discussions made one after the other with !new, each given
\* a model, a token limit and questions, over a storage directory that
\* starts empty and comes to hold at most MaxDiscussions documents.
InitSession ==
    /\ message = Message_clear
    /\ files = [p \in { CodePath(code) : code \in Codes } |-> Absent]
    /\ InitEngine

NextSession ==
    \/ /\ Cardinality(Documents(files)) < MaxDiscussions
       /\ UICreateNewDiscussion("Trip")
    \/ \E code \in Codes : UIOpenDiscussion(code)
    \/ UICloseDiscussion
    \/ \E value \in UIModels : UIChangeModel(value)
    \/ \E limit \in UITokenLimits : UISetTokenLimit(limit)
    \/ \E outcome \in StoredOutcomes :
          UIHandleGptInteraction("Hello", outcome, outcome, MaxSessionExchanges)

SpecSession == InitSession /\ [][NextSession]_vars

\* SpecCommands: every command that changes the open discussion, over a
\* storage directory that starts empty and comes to hold at most
\* MaxCommandDiscussions documents.
NextCommands ==
    \/ /\ Cardinality(Documents(files)) < MaxCommandDiscussions
       /\ UICreateNewDiscussion("Trip")
    \/ \E code \in Codes : UIOpenDiscussion(code)
    \/ UICloseDiscussion
    \/ UISetTitle("Work")
    \/ \E value \in UIModels : UIChangeModel(value)
    \/ \E limit \in UITokenLimits : UISetTokenLimit(limit)
    \/ \E content \in UISystemMessages : UISetSystemMessage(content)
    \/ \E outcome \in Outcomes :
          UIHandleGptInteraction("Hello", outcome, outcome, MaxCommandExchanges)

SpecCommands == InitSession /\ [][NextCommands]_vars

-----------------------------------------------------------------------------
(* Claims about Message, under SpecMessage *)

\* C1: after every sequence of Message.add_message calls from an empty
\* transcript, the transcript holds at most one turn with role system, and
\* if it holds one, that turn is at index 0 (the first of the sequence).
C1_AtMostOneSystemTurnAtFront ==
    /\ SystemTurns(message) <= 1
    /\ SystemTurns(message) = 1 => message[1].role = "system"

\* An add_message with role system on a transcript that held two other
\* turns: the system turn stands in front of them.
C1_Witness ==
    /\ last.op = "Message.add_message"
    /\ last.arg[1] = PyStr("system")
    /\ Len(message) = 3
    /\ message[1].role = "system"
    /\ message[2].role = "user"
    /\ message[3].role = "assistant"

\* C10: Message.add_message raises ValueError (the invalid-argument error)
\* when role or content is not a string, and a call that raised leaves the
\* transcript as it was.
C10_AddMessageRejectsNonStrings ==
    [][ last'.op = "Message.add_message" =>
          /\ (~IsStr(last'.arg[1]) \/ ~IsStr(last'.arg[2])) => last'.err = "ValueError"
          /\ last'.err # NoError => message' = message ]_vars

\* An add_message with a string role and a content that is no string has
\* raised on a transcript that holds turns.
C10_Witness ==
    /\ last.op = "Message.add_message"
    /\ last.arg = << PyStr("user"), PyInt(1) >>
    /\ last.err = "ValueError"
    /\ Len(message) = 2

\* The roles the specification gives a turn.
TurnRoles == {"system", "user", "assistant"}

\* The roles of the turns of a transcript.
RolesIn(m) == { m[i].role : i \in DOMAIN m }

\* C11 as stated: after any sequence of add_message calls with string
\* arguments, every turn stored in the transcript has a role in
\* {system, user, assistant}.
C11_RolesInEnumeration == RolesIn(message) \subseteq TurnRoles

\* C11, amended: add_message stores the role string it is given: after a
\* call with string arguments the transcript holds a turn with the call's
\* role, and every turn has the call's role or a role the transcript held
\* before; so every role is in {system, user, assistant} as long as every
\* call's role was.
C11_StoredRoleIsCallRole ==
    [][ (last'.op = "Message.add_message" /\ last'.err = NoError) =>
          /\ last'.arg[1].s \in RolesIn(message')
          /\ RolesIn(message') \subseteq RolesIn(message) \cup {last'.arg[1].s}
          /\ (RolesIn(message) \subseteq TurnRoles /\ last'.arg[1].s \in TurnRoles)
                => RolesIn(message') \subseteq TurnRoles ]_vars

\* add_message("tool", ...) has returned on a transcript that held a system
\* turn and a user turn: the turn is stored with the role tool.
C11_Witness ==
    /\ last.op = "Message.add_message"
    /\ last.arg[1] = PyStr("tool")
    /\ last.err = NoError
    /\ Len(message) = 3
    /\ message[1].role = "system"
    /\ message[2].role = "user"
    /\ message[3].role = "tool"

\* C12: in every transcript state, system_content = None followed by a read
\* of system_content gives None, and system_content = x for a string x
\* followed by a read gives x, whatever turns the transcript held.
C12_SetThenGetSystemContent ==
    [][ \A content \in SystemContents :
           MsgSetSystemContent(content) =>
               Message_system_content(message') = content ]_vars

\* The setter has replaced the content of a system turn that add_message
\* had stored, in front of two other turns.
C12_Witness ==
    /\ last.op = "Message.system_content"
    /\ Len(message) = 3
    /\ message[1] = Turn("system", "Be brief.")
    /\ message[2].role = "user"
    /\ message[3].role = "assistant"

\* C13: setting system_content, to a string or to None, never makes a
\* second system turn and leaves the non-system turns, their roles,
\* contents and order, as they were: the transcript afterwards is the
\* system turn, if one is set, followed by the former non-system turns.
C13_SetSystemContentFrame ==
    [][ last'.op = "Message.system_content" =>
          /\ SystemTurns(message') <= 1
          /\ NonSystem(message') = NonSystem(message)
          /\ message' = (IF HasSystemTurn(message') THEN << message'[1] >> ELSE << >>)
                            \o NonSystem(message) ]_vars

\* The setter has removed the system turn that stood in front of a user
\* turn and a tool turn.
C13_Witness ==
    /\ last.op = "Message.system_content"
    /\ message = << Turn("user", "a"), Turn("tool", "bb") >>

\* C14: clear_except_system leaves exactly the system turn when index 0 is
\* a system turn, and every other turn is gone; on a transcript without
\* system turn the result is that of clear, the empty transcript.
C14_ClearExceptSystem ==
    [][ last'.op = "Message.clear_except_system" =>
          IF SystemTurns(message) > 0
          THEN /\ Len(message') = 1
               /\ message'[1].role = "system"
               /\ PyStr(message'[1].content) = Message_system_content(message)
          ELSE message' = Message_clear ]_vars

\* clear_except_system has emptied a transcript that held two turns and no
\* system turn.
C14_Witness ==
    /\ last.op = "Message.clear_except_system"
    /\ Len(last.pre_complete) = 2
    /\ last.pre_complete[1].role = "user"
    /\ message = << >>

-----------------------------------------------------------------------------
(* Claims about add_user_question, under SpecTalk *)

\* A step of a running add_user_question, and the step that ends one.
AskStep == pc # "idle" \/ pc' # "idle"
AskEnds == pc # "idle" /\ pc' = "idle"

\* An add_user_question call has returned and nothing was called since.
AskReturned == pc = "idle" /\ last.op = "add_user_question"

\* The estimated token size of a transcript: floor(sum of content lengths / 4).
EstimatedTokens(m) == ContentLength(m) \div 4

\* C2: every add_user_question call appends exactly one user turn (the
\* question) followed by exactly one assistant turn (the reply, which is
\* what the call returns) to complete_message, and no step of such a call,
\* summarization included, makes complete_message shorter.
C2_AppendsOneExchange ==
    [][ /\ AskStep => Len(complete_message') >= Len(complete_message)
        /\ AskEnds =>
             /\ last'.ret = PyStr(GPTApi_ask_gpt(last'.remote[1]))
             /\ complete_message' =
                   last'.pre_complete \o << Turn("user", last'.arg.s),
                                            Turn("assistant", last'.ret.s) >> ]_vars

\* A second call, in which summarization ran, has returned: complete_message
\* held a system turn and one exchange and now holds two exchanges.
C2_Witness ==
    /\ AskReturned
    /\ last.summarized
    /\ Len(last.pre_complete) = 3
    /\ Len(complete_message) = 5

\* C3: summarization leaves complete_message unchanged: the step in which
\* handle_long_discussion rebuilds resume_message does not change it, and
\* when a call in which summarization ran returns, complete_message is its
\* value at the call plus the question and the reply, no more, and none of
\* its turns holds the summarization instruction or the sentinel system
\* content.
C3_SummarizationLeavesCompleteAlone ==
    [][ /\ pc = "summarize" => complete_message' = complete_message
        /\ (AskEnds /\ last'.summarized) =>
             /\ complete_message' =
                   last'.pre_complete \o << Turn("user", last'.arg.s),
                                            Turn("assistant", last'.ret.s) >>
             /\ \A i \in DOMAIN complete_message' :
                   complete_message'[i].content \notin
                       { InstructionSent(token_limit), InstructionRecorded,
                         SummarizingSentinel } ]_vars

\* A call in which summarization ran and the model gave a summary has
\* returned, on an engine with a system message and an earlier exchange.
C3_Witness ==
    /\ AskReturned
    /\ last.summarized
    /\ last.remote[2].kind = "ok"
    /\ HasSystemTurn(complete_message)
    /\ Len(last.pre_complete) = 3
    /\ resume_message # complete_message

\* C4: when the estimated token size of resume_message, once the reply is
\* appended, exceeds token_limit, the call makes exactly one more remote
\* call (the summarization), two in all, and when it returns resume_message
\* holds exactly two non-system turns, a user turn and an assistant turn
\* with the summary, preceded by the system turn exactly when a system
\* message was set at the call.
C4_OverBudgetSummarizesOnce ==
    [][ /\ pc = "ask" =>
             LET after == Append(resume_message,
                                 Turn("assistant", GPTApi_ask_gpt(last'.remote[1])))
             IN EstimatedTokens(after) > token_limit =>
                   pc' = "summarize" /\ last'.calls = 2 /\ last'.summarized
        /\ pc = "summarize" => pc' = "idle" /\ last'.calls = 2
        /\ (AskEnds /\ last'.summarized) =>
             LET turns == NonSystem(resume_message')
             IN /\ last'.calls = 2
                /\ Len(last'.remote) = 2
                /\ Len(turns) = 2
                /\ turns[1].role = "user"
                /\ turns[2] = Turn("assistant", GPTApi_ask_gpt(last'.remote[2]))
                /\ resume_message' =
                      (IF last'.pre_system # None
                       THEN << Turn("system", last'.pre_system.s) >> ELSE << >>)
                      \o turns ]_vars

\* A call on an engine without system message, whose second exchange went
\* over the budget, has returned: resume_message holds the two turns only.
C4_Witness ==
    /\ AskReturned
    /\ last.summarized
    /\ last.pre_system = None
    /\ Len(last.pre_complete) = 2
    /\ Len(resume_message) = 2

\* C5: on an empty engine, add_user_question(q) with a remote client that
\* returns r, where the estimated size stays within token_limit, returns r
\* and leaves complete_message and resume_message equal to
\* [user q, assistant r].
C5_FirstExchange ==
    (/\ AskReturned
     /\ last.pre_complete = << >>
     /\ last.remote[1].kind = "ok"
     /\ (Len(last.arg.s) + Len(last.remote[1].text)) \div 4 <= token_limit)
    => LET exchange == << Turn("user", last.arg.s),
                          Turn("assistant", last.remote[1].text) >>
       IN /\ last.ret = PyStr(last.remote[1].text)
          /\ complete_message = exchange
          /\ resume_message = exchange

\* "Hello" answered by "Hi there" under a token_limit of 3, which the
\* estimate of 13 / 4 just reaches.
C5_Witness ==
    /\ AskReturned
    /\ token_limit = 3
    /\ last.ret = PyStr("Hi there")
    /\ complete_message = << Turn("user", "Hello"), Turn("assistant", "Hi there") >>
    /\ resume_message = complete_message

\* C15: on an engine created empty, after any sequence of system_content
\* assignments, add_user_question calls, with or without summarization, and
\* clear calls, the system content of complete_message equals the system
\* content of resume_message whenever no operation is in progress.
C15_SystemContentInSync ==
    pc = "idle" =>
        Message_system_content(complete_message) = Message_system_content(resume_message)

\* A call in which summarization ran has returned on an engine with a
\* system message: both transcripts hold it, and they differ otherwise.
C15_Witness ==
    /\ AskReturned
    /\ last.summarized
    /\ Message_system_content(complete_message) = PyStr("Be brief.")
    /\ Message_system_content(resume_message) = PyStr("Be brief.")
    /\ resume_message # complete_message

\* The ways the remote call fails.
FailureKinds == {"AuthenticationError", "OpenAIError", "Exception"}

\* C16: a remote call that fails, by authentication, at the provider or
\* unexpectedly, is not raised to the caller of add_user_question: an error
\* text, which differs from one kind of failure to another, is appended as
\* an assistant turn to both transcripts and is what the call returns; the
\* failed request is not sent again (the only further request is the
\* summarization's), and the engine is idle, ready for the next call, when
\* the call has returned.
C16_FailedCallBecomesReply ==
    [][ /\ \A k1, k2 \in FailureKinds :
             k1 # k2 => GPTApi_ask_gpt([kind |-> k1, text |-> "x"])
                          # GPTApi_ask_gpt([kind |-> k2, text |-> "x"])
        /\ (pc = "ask" /\ last'.remote[1].kind \in FailureKinds) =>
             LET turn == Turn("assistant", GPTApi_ask_gpt(last'.remote[1]))
             IN /\ last'.err = NoError
                /\ turn.content # last'.remote[1].text
                /\ complete_message' = Append(complete_message, turn)
                /\ \E i \in DOMAIN resume_message' : resume_message'[i] = turn
                /\ pc' = "idle" =>
                      /\ resume_message' = Append(resume_message, turn)
                      /\ last'.ret = PyStr(turn.content)
                      /\ last'.calls = 1
                /\ pc' # "idle" =>
                      /\ pc' = "summarize"
                      /\ inflight'.messages # inflight.messages
        /\ (pc = "summarize" /\ last.remote[1].kind \in FailureKinds) =>
             /\ pc' = "idle"
             /\ last'.err = NoError
             /\ last'.ret = PyStr(GPTApi_ask_gpt(last.remote[1]))
             /\ last'.calls = 2 ]_vars

\* A call has returned whose remote call failed at the provider, made on an
\* engine whose previous exchange had ended with the reply to a failed
\* authentication.
C16_Witness ==
    /\ AskReturned
    /\ last.remote[1].kind = "OpenAIError"
    /\ last.ret = PyStr("Error - related to the OpenAI API: 500")
    /\ Len(last.pre_complete) = 2
    /\ last.pre_complete[2] =
          Turn("assistant", "Error - invalid or not configured API key: 401")
    /\ Len(complete_message) = 4

-----------------------------------------------------------------------------
(* Claims about the engine's setters and persistence, under Spec *)

\* C6: round trip: in every state of the engine, a dump to a path followed
\* by a load of that path succeeds and reproduces title, model, token_limit
\* and the turns of complete_message and of resume_message exactly.
C6_DumpLoadRoundTrip ==
    [][ (last.op = "dump" /\ last'.op = "load" /\ last'.arg = last.arg) =>
          /\ last'.err = NoError
          /\ title' = title
          /\ model' = model
          /\ token_limit' = token_limit
          /\ complete_message' = complete_message
          /\ resume_message' = resume_message ]_vars

\* A load that followed a dump, of an engine with a title, a model and a
\* token_limit that are not the defaults, a system message and a
\* resume_message that summarization made differ from complete_message.
C6_Witness ==
    /\ last.op = "load"
    /\ last.prev = "dump"
    /\ last.err = NoError
    /\ title = PyStr("Trip")
    /\ model = "gpt-4"
    /\ token_limit = 3
    /\ HasSystemTurn(complete_message)
    /\ Len(complete_message) = 3
    /\ resume_message # complete_message

\* C7: load of a path that names no file raises FileNotFoundError (the
\* not-found error) after it has emptied both transcripts: when it has
\* raised, both transcripts are empty and title, created_date,
\* modified_date, token_limit and model are what they were before the call.
C7_LoadMissingFile ==
    [][ last'.op = "load" =>
          /\ files[last'.arg.s] = Absent => last'.err = "FileNotFoundError"
          /\ last'.err = "FileNotFoundError" =>
                /\ complete_message' = << >>
                /\ resume_message' = << >>
                /\ title' = title
                /\ created_date' = created_date
                /\ modified_date' = modified_date
                /\ token_limit' = token_limit
                /\ model' = model ]_vars

\* A load of a missing file has raised on an engine that held an exchange,
\* a title, a model and a token_limit that are not the defaults.
C7_Witness ==
    /\ last.op = "load"
    /\ last.err = "FileNotFoundError"
    /\ Len(last.pre_complete) = 2
    /\ title = PyStr("Trip")
    /\ model = "gpt-4"
    /\ token_limit = 3

\* The values the specification accepts for each setter.
PositiveInteger(v) == IsInt(v) /\ v.n > 0
AllowedModel(v) == IsStr(v) /\ v.s \in {"gpt-3.5-turbo", "gpt-4"}
StringOrAbsent(v) == v = None \/ IsStr(v)

\* C8: each setter validates before it applies: assigning a token_limit
\* that is not a positive integer, a model that is not in the allow-list or
\* a title that is neither a string nor None raises ValueError (the
\* invalid-argument error), and a setter that raised has left token_limit,
\* model, title, the dates and both transcripts unchanged.
C8_SettersValidateFirst ==
    [][ /\ \A v \in TokenLimits :
             (SetTokenLimit(v) /\ ~PositiveInteger(v)) => last'.err = "ValueError"
        /\ \A v \in Models :
             (SetModel(v) /\ ~AllowedModel(v)) => last'.err = "ValueError"
        /\ \A v \in Titles :
             (SetTitle(v) /\ ~StringOrAbsent(v)) => last'.err = "ValueError"
        /\ (last'.op \in {"token_limit", "model", "title"} /\ last'.err # NoError) =>
             UNCHANGED << token_limit, model, title, created_date, modified_date,
                          complete_message, resume_message >> ]_vars

\* The model setter has raised on an engine loaded from a document, with an
\* exchange, a title and a token_limit of 3.
C8_Witness ==
    /\ last.op = "model"
    /\ last.err = "ValueError"
    /\ model = "gpt-4"
    /\ token_limit = 3
    /\ title = PyStr("Trip")
    /\ created_date # None
    /\ Len(complete_message) = 2

\* C9: in every state of the engine, after construction and any sequence of
\* setter calls, load, clear and add_user_question, failed ones included,
\* model is one of gpt-3.5-turbo and gpt-4 and token_limit is a positive
\* integer, and the model of every remote call issued is one of the two.
C9_ModelAndLimitValid ==
    /\ model \in {"gpt-3.5-turbo", "gpt-4"}
    /\ token_limit \in Nat \ {0}
    /\ pc # "idle" => inflight.model \in {"gpt-3.5-turbo", "gpt-4"}

\* A load has raised on a stored document whose token_limit is 0, on an
\* engine whose token_limit was 3.
C9_Witness ==
    /\ last.op = "load"
    /\ last.err = "ValueError"
    /\ "token_limit" \in DOMAIN files["a.json"]
    /\ files["a.json"].token_limit = PyInt(0)
    /\ token_limit = 3
    /\ model = "gpt-4"

\* C17: Discussion.clear empties complete_message and resume_message, the
\* system turn included, and resets title, created_date and modified_date
\* to unset.
C17_ClearResets ==
    [][ last'.op = "clear" =>
          /\ complete_message' = << >>
          /\ resume_message' = << >>
          /\ title' = None
          /\ created_date' = None
          /\ modified_date' = None ]_vars

\* clear has run on an engine that held a system message and an exchange.
C17_Witness ==
    /\ last.op = "clear"
    /\ last.pre_system = PyStr("Be brief.")
    /\ Len(last.pre_complete) = 3
    /\ complete_message = << >>
    /\ resume_message = << >>
    /\ title = None

-----------------------------------------------------------------------------
(* Claims about the dates of a stored document, under SpecDates *)

\* The time an ISO string of a document stands for.
TimeOf(v) == fromisoformat(v).date.tick

\* C18: every dump writes modified_date equal to the current time, whatever
\* the engine's modified_date was, and writes created_date equal to the
\* engine's created_date when it is set and to the current time (the
\* reading of the clock made for it, just before) when it is unset; so the
\* written document has created_date no later than modified_date, and
\* modified_date does not decrease from one dump of a path to the next
\* while the clock does not go back.
C18_DumpStampsDates ==
    [][ last'.op = "dump" =>
          LET doc == files'[last'.arg.s]
              old == files[last'.arg.s]
          IN /\ doc.modified_date = isoformat(PyDate(now'))
             /\ IF created_date # None
                THEN doc.created_date = isoformat(created_date)
                ELSE \E t \in now..now' : doc.created_date = isoformat(PyDate(t))
             /\ TimeOf(doc.created_date) <= TimeOf(doc.modified_date)
             /\ old # Absent => TimeOf(old.modified_date) <= TimeOf(doc.modified_date) ]_vars

\* A dump at time 2 of an engine that was loaded from a document written at
\* time 0: the document keeps created_date 0 and gets modified_date 2.
C18_Witness ==
    /\ last.op = "dump"
    /\ modified_date = PyDate(0)
    /\ created_date = PyDate(0)
    /\ now = 2
    /\ files["a.json"].created_date = isoformat(PyDate(0))
    /\ files["a.json"].modified_date = isoformat(PyDate(2))

\* C19 as stated: the engine's modified_date is updated on save: when dump
\* has returned, the engine's modified_date equals the modified_date
\* written to the document, and its created_date the created_date written.
C19_DumpUpdatesEngineDates ==
    [][ last'.op = "dump" =>
          LET doc == files'[last'.arg.s]
          IN /\ modified_date' # None
             /\ isoformat(modified_date') = doc.modified_date
             /\ created_date' # None
             /\ isoformat(created_date') = doc.created_date ]_vars

-----------------------------------------------------------------------------
(* Claims about the interface, under SpecUI *)

\* C20: the code generate_discussion_code returns never names an existing
\* file <code>.json of the storage directory, so creating a discussion with
\* !new never overwrites the document of another discussion: the new
\* document is written where no file was, every other document stays, and
\* only the document of the discussion that was open is rewritten, by its
\* own save, keeping its title.
C20_NewCodeIsFree ==
    [][ last'.op = "create_new_discussion" =>
          /\ ~isfile(files, CodePath(last'.arg.s))
          /\ discussion_code' = last'.arg
          /\ isfile(files', CodePath(last'.arg.s))
          /\ \A code \in Codes \ {last'.arg.s} :
                IF discussion_code = PyStr(code)
                THEN /\ isfile(files', CodePath(code))
                     /\ Get(files'[CodePath(code)], "title", None) = title
                ELSE files'[CodePath(code)] = files[CodePath(code)] ]_vars

\* !new has made a third discussion while another was open: the directory
\* holds three documents with their own titles.
C20_Witness ==
    /\ last.op = "create_new_discussion"
    /\ discussion_code = PyStr("C")
    /\ title = PyStr("Work")
    /\ isfile(files, "A.json")
    /\ isfile(files, "B.json")
    /\ files["A.json"].title = PyStr("Trip")
    /\ files["B.json"].title = PyStr("Trip")
    /\ files["C.json"].title = PyStr("Work")

-----------------------------------------------------------------------------
(* Claims about the order of add_user_question's steps, under SpecTalk *)

\* The last turn of a transcript that is not empty.
LastTurn(m) == m[Len(m)]

\* C21: within one add_user_question call the user turn is appended to both
\* transcripts first; then the remote call is issued with the turns of
\* resume_message, the last of which is the new question; then the reply is
\* appended as an assistant turn to both transcripts; then the budget is
\* checked.  While the remote call runs the question is in
\* complete_message, and the budget check reads resume_message with the
\* reply in it.
C21_StepsInOrder ==
    [][ /\ (pc = "idle" /\ pc' = "ask") =>
             /\ complete_message' = Append(complete_message, Turn("user", last'.arg.s))
             /\ resume_message' = Append(resume_message, Turn("user", last'.arg.s))
        /\ pc' = "ask" =>
             /\ inflight'.messages = resume_message'
             /\ LastTurn(inflight'.messages) = Turn("user", last'.arg.s)
             /\ LastTurn(complete_message') = Turn("user", last'.arg.s)
        /\ pc = "ask" =>
             LET turn == Turn("assistant", GPTApi_ask_gpt(last'.remote[1]))
             IN /\ complete_message' = Append(complete_message, turn)
                /\ turn \in { resume_message'[i] : i \in DOMAIN resume_message' }
                /\ (pc' = "summarize") <=>
                      (EstimatedTokens(Append(resume_message, turn)) > token_limit)
                /\ (EstimatedTokens(Append(resume_message, turn)) <= token_limit) =>
                      resume_message' = Append(resume_message, turn) ]_vars

\* The remote call of a second question is running, on an engine with a
\* system message: both transcripts end with the question.
C21_Witness ==
    /\ pc = "ask"
    /\ Len(complete_message) = 4
    /\ HasSystemTurn(complete_message)
    /\ LastTurn(complete_message) = Turn("user", "Why?")
    /\ inflight.messages = resume_message
    /\ LastTurn(resume_message) = Turn("user", "Why?")

-----------------------------------------------------------------------------
(* Claims about the budget, under Spec *)

\* C22: summarization runs in an add_user_question call if and only if
\* floor(S / 4) > token_limit, S being the sum of the content lengths of
\* all turns of resume_message, the system turn included, once the reply is
\* appended; an estimate equal to token_limit does not start it; and no
\* other operation starts it: not an assignment of token_limit or of
\* system_content, nor load.
C22_SummarizationTrigger ==
    [][ /\ pc = "ask" =>
             LET after == Append(resume_message,
                                 Turn("assistant", GPTApi_ask_gpt(last'.remote[1])))
             IN /\ (pc' = "summarize") <=> (ContentLength(after) \div 4 > token_limit)
                /\ last'.summarized <=> (ContentLength(after) \div 4 > token_limit)
                /\ (ContentLength(after) \div 4 = token_limit) => pc' = "idle"
        /\ pc' = "summarize" => pc = "ask"
        /\ last'.op # "add_user_question" =>
             /\ pc' = "idle"
             /\ inflight' = NoRequest
             /\ ~last'.summarized
        /\ last'.op \in {"token_limit", "system_content"} =>
             NonSystem(resume_message') = NonSystem(resume_message) ]_vars

\* A call has returned without summarization on a loaded engine, with an
\* estimate that equals token_limit: 13 characters, limit 3.
C22_Witness ==
    /\ AskReturned
    /\ ~last.summarized
    /\ token_limit = 3
    /\ ContentLength(resume_message) \div 4 = token_limit
    /\ created_date # None

-----------------------------------------------------------------------------
(* Claims about summarization, under SpecTalk *)

\* C23 as stated: after an add_user_question call in which summarization
\* ran, the estimated token size of resume_message does not exceed
\* token_limit.
C23_UnderBudgetAfterSummarization ==
    (AskReturned /\ last.summarized) => EstimatedTokens(resume_message) <= token_limit

\* C24: the remote call of summarization receives a system turn with the
\* sentinel "Summarizing the conversation...", then every non-system turn
\* resume_message held before summarization, in order, then the user
\* instruction turn as last element; the instruction asks for a summary of
\* less than floor(token_limit / 4) tokens.
C24_SummarizationRequest ==
    [][ pc' = "summarize" =>
          LET before == Append(resume_message,
                               Turn("assistant", GPTApi_ask_gpt(last'.remote[1])))
          IN /\ inflight'.messages =
                   << Turn("system", "Summarizing the conversation...") >>
                   \o NonSystem(before)
                   \o << Turn("user", "Summarize the conversation less than "
                                        \o ToString(token_limit \div 4) \o " tokens.") >>
             /\ inflight'.messages = resume_message'
             /\ inflight'.model = model ]_vars

\* The summarization request of an engine with a system message and two
\* exchanges is in flight: sentinel, four turns, instruction.
C24_Witness ==
    /\ pc = "summarize"
    /\ old_system_content = PyStr("Be brief.")
    /\ Len(inflight.messages) = 6
    /\ inflight.messages[1] = Turn("system", SummarizingSentinel)
    /\ inflight.messages[6] = Turn("user", "Summarize the conversation less than 0 tokens.")

\* C25: summarization restores the system content of resume_message: when
\* it completes the system content is the value read at its start, and
\* when no system message was set resume_message has no system turn; the
\* sentinel system turn never remains.
C25_SystemContentRestored ==
    [][ /\ pc' = "summarize" =>
             old_system_content' = Message_system_content(resume_message)
        /\ pc = "summarize" =>
             /\ Message_system_content(resume_message') = old_system_content
             /\ Message_system_content(resume_message') = last'.pre_system
             /\ old_system_content = None => SystemTurns(resume_message') = 0
             /\ \A i \in DOMAIN resume_message' :
                   resume_message'[i] # Turn("system", SummarizingSentinel) ]_vars

\* Summarization has completed on an engine with the system message
\* "Be brief.", which resume_message holds again.
C25_Witness ==
    /\ AskReturned
    /\ last.summarized
    /\ last.pre_system = PyStr("Be brief.")
    /\ Len(resume_message) = 3
    /\ resume_message[1] = Turn("system", "Be brief.")

\* C26 as stated: the user turn summarization records in resume_message
\* after the reset has the instruction text of the user instruction turn
\* that was sent to the model in the summarization call.
C26_RecordedInstructionIsSent ==
    [][ pc = "summarize" =>
          NonSystem(resume_message')[1].content = LastTurn(inflight.messages).content ]_vars

\* C27: summarization makes exactly one remote call; when that call fails
\* the error text it returns is stored as the assistant summary turn, no
\* second call is made, and resume_message ends as the optional system
\* turn, the user instruction and the assistant summary.
C27_SummarizationCallsOnce ==
    [][ pc = "summarize" =>
          /\ pc' = "idle"
          /\ inflight' = NoRequest
          /\ last'.calls = 2
          /\ Len(last'.remote) = Len(last.remote) + 1
          /\ LET summary == GPTApi_ask_gpt(last'.remote[2])
                 turns == NonSystem(resume_message')
             IN /\ Len(turns) = 2
                /\ turns[1].role = "user"
                /\ turns[2] = Turn("assistant", summary)
                /\ Len(resume_message') = 2 + SystemTurns(resume_message')
                /\ SystemTurns(resume_message') <= 1
                /\ last'.remote[2].kind \in FailureKinds => summary # last'.remote[2].text ]_vars

\* A call has returned whose summarization call failed unexpectedly: the
\* error text is the summary turn.
C27_Witness ==
    /\ AskReturned
    /\ last.summarized
    /\ last.remote[2].kind = "Exception"
    /\ Len(resume_message) = 3
    /\ resume_message[1].role = "system"
    /\ resume_message[2].role = "user"
    /\ resume_message[3] = Turn("assistant", "Error - Unexpected error: boom")

\* C29: on an engine created empty and driven by add_user_question and
\* system_content assignments, resume_message and complete_message hold
\* the same turns in every state reached before the first summarization:
\* they are equal at the start, and every step that is not a step of
\* summarization keeps them equal.
C29_TranscriptsEqualBeforeSummarization ==
    [][ (complete_message = resume_message /\ pc # "summarize" /\ pc' # "summarize") =>
            complete_message' = resume_message' ]_vars

\* Two exchanges under a system message and a budget that they do not
\* exceed: no summarization has run and the transcripts are equal.
C29_Witness ==
    /\ AskReturned
    /\ ~last.summarized
    /\ token_limit = DefaultTokenLimit
    /\ Len(complete_message) = 5
    /\ HasSystemTurn(complete_message)
    /\ resume_message = complete_message

\* The turns of a transcript are user, assistant, user, assistant, ...
Alternates(turns) ==
    /\ Len(turns) > 0
    /\ Len(turns) % 2 = 0
    /\ \A i \in DOMAIN turns :
          turns[i].role = (IF i % 2 = 1 THEN "user" ELSE "assistant")

\* C30: on an engine created empty, after every completed
\* add_user_question call, with or without summarization, the non-system
\* turns of complete_message and those of resume_message alternate user,
\* assistant, from a user turn to an assistant turn, so both transcripts
\* hold an even number of non-system turns.
C30_TurnsAlternate ==
    AskReturned =>
        /\ Alternates(NonSystem(complete_message))
        /\ Alternates(NonSystem(resume_message))

\* A second call, in which summarization ran, has returned: four turns in
\* complete_message after the system turn, two in resume_message.
C30_Witness ==
    /\ AskReturned
    /\ last.summarized
    /\ Len(NonSystem(complete_message)) = 4
    /\ Len(NonSystem(resume_message)) = 2
    /\ HasSystemTurn(resume_message)

-----------------------------------------------------------------------------
(* Claims about a load that fails, under Spec *)

\* C28 as stated: a load that fails validation, the model of the document
\* not in the allow-list or its token_limit not a positive integer, raises
\* ValueError and leaves all engine state unchanged: no partial mutation
\* of title, model or token_limit.
C28_FailedLoadChangesNothing ==
    [][ (last'.op = "load" /\ last'.err = "ValueError") =>
          UNCHANGED << title, model, token_limit, created_date, modified_date,
                       complete_message, resume_message >> ]_vars

\* A transcript holds at most one system turn, and it is the first turn.
OneSystemTurnAtFront(m) ==
    /\ SystemTurns(m) <= 1
    /\ SystemTurns(m) = 1 => m[1].role = "system"

\* C31: in every state of the engine reached by add_user_question,
\* system_content assignments, clear, summarization and load of a document
\* that dump wrote, complete_message and resume_message each hold at most
\* one system turn, at index 0; the states in which a remote call is
\* running are included.
C31_EngineTranscriptsOneSystemTurn ==
    /\ OneSystemTurnAtFront(complete_message)
    /\ OneSystemTurnAtFront(resume_message)

\* A document that dump wrote after a summarization has been loaded: both
\* transcripts start with the system turn and differ after it.
C31_Witness ==
    /\ last.op = "load"
    /\ last.prev = "dump"
    /\ last.err = NoError
    /\ HasSystemTurn(complete_message)
    /\ HasSystemTurn(resume_message)
    /\ Len(complete_message) = 3
    /\ resume_message[2].content = InstructionRecorded

-----------------------------------------------------------------------------
(* Claims about !new after another discussion, under SpecSession *)

\* The document stored under the code of a discussion.
DocumentOf(fs, code) == fs[CodePath(code.s)]

\* C32: Discussion.clear leaves token_limit and model as they are, so !new
\* and !close leave them as they are, and the document !new writes for the
\* new discussion holds two empty transcripts together with the token_limit
\* and the model the engine held before the command, whatever the defaults.
C32_NewDiscussionKeepsLimitAndModel ==
    [][ /\ last'.op \in {"create_new_discussion", "close_discussion"} =>
             /\ token_limit' = token_limit
             /\ model' = model
        /\ last'.op = "create_new_discussion" =>
             /\ isfile(files', CodePath(last'.arg.s))
             /\ DocumentOf(files', last'.arg).complete_message = PyList(<< >>)
             /\ DocumentOf(files', last'.arg).resume_message = PyList(<< >>)
             /\ DocumentOf(files', last'.arg).token_limit = PyInt(token_limit)
             /\ DocumentOf(files', last'.arg).model = PyStr(model) ]_vars

\* !new has made a second discussion after the first one, with an exchange,
\* was given another model and another token limit: the new document has
\* no turn and holds that model and that limit, not the defaults.
C32_Witness ==
    /\ last.op = "create_new_discussion"
    /\ discussion_code = PyStr("B")
    /\ isfile(files, "A.json")
    /\ Len(files["A.json"].complete_message.items) >= 2
    /\ files["B.json"].complete_message = PyList(<< >>)
    /\ files["B.json"].resume_message = PyList(<< >>)
    /\ files["B.json"].model = PyStr("gpt-4")
    /\ files["B.json"].token_limit = PyInt(2000)
    /\ model # DefaultModel
    /\ token_limit # DefaultTokenLimit

-----------------------------------------------------------------------------
(* Claims about the commands on the open discussion, under SpecCommands *)

\* The commands that change the state of the open discussion.
StateChangingCommands ==
    {"handle_gpt_interaction", "set_title", "set_system_message",
     "set_token_limit", "change_model"}

\* C33: while a discussion is open, after a question, !title, !system,
\* !token_limit or !model has returned, the document of the open discussion
\* holds the title, the model, the token_limit and the two transcripts of
\* the engine.
C33_DocumentHoldsEngineState ==
    (discussion_code # None /\ last.op \in StateChangingCommands) =>
        /\ isfile(files, CodePath(discussion_code.s))
        /\ Get(DocumentOf(files, discussion_code), "title", None) = title
        /\ DocumentOf(files, discussion_code).model = PyStr(model)
        /\ DocumentOf(files, discussion_code).token_limit = PyInt(token_limit)
        /\ DocumentOf(files, discussion_code).complete_message = PyList(complete_message)
        /\ DocumentOf(files, discussion_code).resume_message = PyList(resume_message)


=============================================================================
